---- MODULE Spec2Model ----
(***************************************************************************)
(* RoomFormDialog (src/components/admin/room-form-dialog.tsx): a modal     *)
(* form that creates or edits a Room.  The model holds the props the       *)
(* parent passes, the react-hook-form values, the isSubmitting flag, the   *)
(* updateRoom/addRoom calls that onSubmit is awaiting, and, for each step, *)
(* what the step did to the component's collaborators (calls issued and    *)
(* settled, toasts, console.error, onClose).                               *)
(***************************************************************************)
EXTENDS Integers, Sequences, FiniteSets, Bags, TLC

\* ---- bounds of the exploration ----
\* persistence calls that may be in flight together
MaxInFlight == 2

\* ---- the values the props and the inputs are drawn from ----
\* `room` is optional: NoRoom stands for an omitted (undefined) prop.
NoRoom == [id |-> "", name |-> "", locationId |-> ""]
Rooms == { [id |-> "R1", name |-> "Old", locationId |-> "L1"] }

L1 == [id |-> "L1", name |-> "Lobby"]
L2 == [id |-> "L2", name |-> "Annex"]
LocationLists == { <<>>, <<L1, L2>>, <<L2>> }

\* `defaultLocationId` is optional: "" stands for undefined (both are falsy).
DefaultIds == { "", "L1" }

TypedNames == { "ab", "New" }

Outcomes == { "truthy", "falsy", "thrown" }

\* z.string().min(3, ...) and z.string().min(1, ...)
NameMinLength == 3
LocationIdMinLength == 1

\* ---- state ----
VARIABLES
    isOpen,             \* prop
    room,               \* prop (NoRoom when omitted)
    locations,          \* prop
    defaultLocationId,  \* prop ("" when omitted)
    form,               \* react-hook-form values [name, locationId]
    isSubmitting,       \* useState flag
    inFlight,           \* bag of the updateRoom/addRoom calls awaited by onSubmit
    out,                \* what the last step did to its collaborators, in order:
                        \* validation errors shown, calls issued or settled,
                        \* toasts, console.error, onClose calls
    onCloseCount,       \* onClose calls since the dialog was last opened (or mounted)
    session             \* 0: never open, 1: first session, 2: opened again since

vars == << isOpen, room, locations, defaultLocationId, form, isSubmitting,
           inFlight, out, onCloseCount, session >>

props == << isOpen, room, locations, defaultLocationId >>

\* ---- toasts of the component ----
ToastNoLocations ==
    [ev |-> "toast", title |-> "Error", description |-> "No locations available. Please add a location first.", variant |-> "destructive"]
ToastRoomUpdated ==
    [ev |-> "toast", title |-> "Room Updated", description |-> "The room has been successfully updated.", variant |-> "default"]
ToastUpdateFailed ==
    [ev |-> "toast", title |-> "Error", description |-> "Failed to update room. Please try again.", variant |-> "destructive"]
ToastRoomAdded ==
    [ev |-> "toast", title |-> "Room Added", description |-> "The new room has been successfully added.", variant |-> "default"]
ToastAddFailed ==
    [ev |-> "toast", title |-> "Error", description |-> "Failed to add room. Please try again.", variant |-> "destructive"]
ToastUnexpected ==
    [ev |-> "toast", title |-> "Error", description |-> "An unexpected error occurred while saving the room.", variant |-> "destructive"]
ConsoleError == [ev |-> "console.error", message |-> "Failed to save room:"]

\* ---- pure helpers ----
\* the entries of a sequence of effects that are of kind e
Evs(seq, e) == { i \in 1..Len(seq) : seq[i].ev = e }

LocationIds(locs) == { locs[i].id : i \in 1..Len(locs) }

\* z.object({ name: z.string().min(3, ...), locationId: z.string().min(1, ...) }):
\* the set of field error messages; the input is accepted iff the set is empty.
roomFormSchema_Min2(data) ==
    (IF Len(data.name) < 2
        THEN { "Room name must be at least 3 characters long." } ELSE {})
    \cup
    (IF Len(data.locationId) < 1
        THEN { "Location is required." } ELSE {})

roomFormSchema(data) ==
    (IF Len(data.name) < NameMinLength
        THEN { "Room name must be at least 3 characters long." } ELSE {})
    \cup
    (IF Len(data.locationId) < LocationIdMinLength
        THEN { "Location is required." } ELSE {})

\* a || b on strings: the first one unless it is falsy (empty)
Or(a, b) == IF a # "" THEN a ELSE b

\* The values of defaultValues / form.reset(...): room?.name || '' and
\* room?.locationId || defaultLocationId || (locations.length > 0 ? locations[0].id : '')
SeedValues(r, locs, d) ==
    [ name       |-> Or(IF r = NoRoom THEN "" ELSE r.name, ""),
      locationId |-> Or(IF r = NoRoom THEN "" ELSE r.locationId,
                        Or(d, IF Len(locs) > 0 THEN locs[1].id ELSE "")) ]

SubmitEnabled_IgnoresLocations == isOpen /\ ~isSubmitting

\* disabled attribute of the primary button, negated
SubmitEnabled == isOpen /\ ~isSubmitting /\ Len(locations) # 0
\* disabled attribute of the Cancel button, negated
CancelEnabled == isOpen /\ ~isSubmitting

\* disabled attribute of the location Select
SelectDisabled == Len(locations) = 0
\* placeholder given to the SelectValue of the location Select
SelectPlaceholder ==
    IF Len(locations) > 0 THEN "Select a location" ELSE "No locations available"

updateRoom_Unmerged(r, data) ==
    [ev |-> "updateRoom", room |-> [r EXCEPT !.name = data.name]]

\* updateRoom({ ...room, name: data.name, locationId: data.locationId })
updateRoom(r, data) ==
    [ev |-> "updateRoom", room |-> [r EXCEPT !.name = data.name, !.locationId = data.locationId]]
addRoom_Swapped(data) ==
    [ev |-> "addRoom", name |-> data.locationId, locationId |-> data.name]

\* addRoom(data.name, data.locationId)
addRoom(data) ==
    [ev |-> "addRoom", name |-> data.name, locationId |-> data.locationId]

\* onClose(updated), as an entry of out
onClose(updated) == [ev |-> "onClose", updated |-> updated]

\* ---- initial state: the component has just mounted ----
Init ==
    /\ isOpen \in BOOLEAN
    /\ room \in Rooms \cup {NoRoom}
    /\ locations \in LocationLists
    /\ defaultLocationId \in DefaultIds
    /\ form = SeedValues(room, locations, defaultLocationId)
    /\ isSubmitting = FALSE
    /\ inFlight = EmptyBag
    /\ out = <<>>
    /\ onCloseCount = 0
    /\ session = IF isOpen THEN 1 ELSE 0

\* ---- the reset effect ----
useEffectReset_PropsOnly ==
    IF isOpen' /\ isOpen
    THEN /\ form' = SeedValues(room', locations', defaultLocationId')
         /\ isSubmitting' = FALSE
    ELSE UNCHANGED << form, isSubmitting >>

\* useEffect(() => { if (isOpen) { form.reset(...); setIsSubmitting(false); } },
\*           [isOpen, room, locations, defaultLocationId, form])
\* run after a render in which a dependency changed, against the new props
useEffectReset ==
    IF isOpen'
    THEN /\ form' = SeedValues(room', locations', defaultLocationId')
         /\ isSubmitting' = FALSE
    ELSE UNCHANGED << form, isSubmitting >>

\* ---- parent ----
\* The parent renders the dialog open; the effect runs because isOpen changed.
ParentOpen ==
    /\ ~isOpen
    /\ isOpen' = TRUE
    /\ session' = IF session < 2 THEN session + 1 ELSE session
    /\ onCloseCount' = 0
    /\ UNCHANGED << room, locations, defaultLocationId >>
    /\ useEffectReset
    /\ out' = <<>>
    /\ UNCHANGED inFlight

\* The parent re-renders with a changed room, locations or defaultLocationId;
\* the effect runs because a dependency changed.
ParentSetProps(r, locs, d) ==
    /\ << r, locs, d >> # << room, locations, defaultLocationId >>
    /\ room' = r
    /\ locations' = locs
    /\ defaultLocationId' = d
    /\ UNCHANGED << isOpen, session, onCloseCount >>
    /\ useEffectReset
    /\ out' = <<>>
    /\ UNCHANGED inFlight

\* What a handler's effects do to the parent: each onClose among them asks
\* the parent to close, and the parent then renders the dialog closed (the
\* effect runs with isOpen false and does nothing).
ParentOnClose(n) ==
    /\ onCloseCount' = onCloseCount + n
    /\ isOpen' = FALSE
    /\ UNCHANGED << room, locations, defaultLocationId, session >>

\* a handler runs with the effects seq
Deliver(seq) ==
    /\ out' = seq
    /\ IF Evs(seq, "onClose") # {}
       THEN ParentOnClose(Cardinality(Evs(seq, "onClose")))
       ELSE UNCHANGED << props, onCloseCount, session >>

\* ---- user input ----
\* <Input {...field} />: typing in the name field (the input has no disabled attribute)
NameChange(n) ==
    /\ isOpen
    /\ form' = [form EXCEPT !.name = n]
    /\ out' = <<>>
    /\ UNCHANGED << props, isSubmitting, inFlight, onCloseCount, session >>

\* <Select onValueChange={field.onChange} disabled={locations.length === 0}>
\* offers one item per element of locations
LocationChange(l) ==
    /\ isOpen
    /\ Len(locations) # 0
    /\ l \in LocationIds(locations)
    /\ form' = [form EXCEPT !.locationId = l]
    /\ out' = <<>>
    /\ UNCHANGED << props, isSubmitting, inFlight, onCloseCount, session >>

\* ---- submission ----
onSubmit_NoGuard(data) ==
    LET call == IF room # NoRoom THEN updateRoom(room, data) ELSE addRoom(data)
    IN  /\ isSubmitting' = TRUE
        /\ inFlight' = inFlight (+) SetToBag({call})
        /\ out' = << call >>

\* onSubmit(data) up to its await
onSubmit(data) ==
    IF Len(locations) = 0
    THEN /\ out' = << ToastNoLocations >>
         /\ UNCHANGED << isSubmitting, inFlight >>
    ELSE LET call == IF room # NoRoom THEN updateRoom(room, data) ELSE addRoom(data)
         IN  /\ isSubmitting' = TRUE
             /\ inFlight' = inFlight (+) SetToBag({call})
             /\ out' = << call >>

\* form.handleSubmit(onSubmit): validate with the resolver; onSubmit is called
\* only with accepted values, otherwise the field errors are shown
handleSubmit ==
    /\ BagCardinality(inFlight) < MaxInFlight
    /\ IF roomFormSchema(form) = {}
       THEN onSubmit(form)
       ELSE /\ out' = << [ev |-> "errors", messages |-> roomFormSchema(form)] >>
            /\ UNCHANGED << isSubmitting, inFlight >>
    /\ UNCHANGED << props, form, onCloseCount, session >>

\* click on the primary button (type="submit"), or Enter in the name field,
\* which submits through the default button: both need the button enabled
SubmitClick ==
    /\ SubmitEnabled
    /\ handleSubmit

\* a submit event dispatched on the form element itself: the disabled
\* attribute of the button is not consulted
FormSubmitEvent ==
    /\ isOpen
    /\ handleSubmit

onSubmitResume_CloseOnFalsy(c, o) ==
    LET settled == [ev |-> "settled", call |-> c.ev, result |-> o]
    IN  CASE o = "truthy" ->
               << settled,
                  IF c.ev = "updateRoom" THEN ToastRoomUpdated ELSE ToastRoomAdded,
                  onClose(TRUE) >>
          [] o = "falsy" ->
               << settled,
                  IF c.ev = "updateRoom" THEN ToastUpdateFailed ELSE ToastAddFailed,
                  onClose(TRUE) >>
          [] o = "thrown" ->
               << settled, ToastUnexpected, ConsoleError >>

\* the rest of the try/catch of onSubmit, after the awaited call c settles
\* with outcome o: the effects, in order
onSubmitResume(c, o) ==
    LET settled == [ev |-> "settled", call |-> c.ev, result |-> o]
    IN  CASE o = "truthy" ->
               << settled,
                  IF c.ev = "updateRoom" THEN ToastRoomUpdated ELSE ToastRoomAdded,
                  onClose(TRUE) >>
          [] o = "falsy" ->
               << settled,
                  IF c.ev = "updateRoom" THEN ToastUpdateFailed ELSE ToastAddFailed >>
          [] o = "thrown" ->
               << settled, ToastUnexpected, ConsoleError >>

onSubmitFinally_CatchOnly(o) == o # "thrown"

onSubmitFinally_TryOnly(o) == o = "thrown"

\* finally { setIsSubmitting(false) }: the flag after outcome o
onSubmitFinally(o) == FALSE

Complete_Retry(c, o) ==
    /\ BagIn(c, inFlight)
    /\ inFlight' = IF o = "truthy" THEN inFlight (-) SetToBag({c}) ELSE inFlight
    /\ Deliver(onSubmitResume(c, o))
    /\ isSubmitting' = onSubmitFinally(o)
    /\ UNCHANGED form

\* the awaited call c settles with outcome o and onSubmit runs to its end
Complete(c, o) ==
    /\ BagIn(c, inFlight)
    /\ inFlight' = inFlight (-) SetToBag({c})
    /\ Deliver(onSubmitResume(c, o))
    /\ isSubmitting' = onSubmitFinally(o)
    /\ UNCHANGED form

\* ---- closing ----
onOpenChange_Changed(open) == IF ~open THEN << onClose(TRUE) >> ELSE <<>>

\* <Dialog onOpenChange={(open) => { if (!open) onClose(false); }}>
onOpenChange(open) == IF ~open THEN << onClose(FALSE) >> ELSE <<>>

\* <DialogClose asChild><Button onClick={() => onClose(false)} disabled={isSubmitting}>:
\* the click runs the button's onClick and then DialogClose's own handler,
\* which reports onOpenChange(false) to the Dialog
CancelClick ==
    /\ CancelEnabled
    /\ Deliver(<< onClose(FALSE) >> \o onOpenChange(FALSE))
    /\ UNCHANGED << form, isSubmitting, inFlight >>

\* Escape, a click outside or the close icon of the modal: the Dialog reports
\* onOpenChange(false); nothing here consults isSubmitting
Dismiss ==
    /\ isOpen
    /\ Deliver(onOpenChange(FALSE))
    /\ UNCHANGED << form, isSubmitting, inFlight >>

Next ==
    \/ ParentOpen
    \/ \E r \in Rooms \cup {NoRoom}, locs \in LocationLists, d \in DefaultIds :
          ParentSetProps(r, locs, d)
    \/ \E n \in TypedNames : NameChange(n)
    \/ \E l \in {"L1", "L2"} : LocationChange(l)
    \/ SubmitClick
    \/ \E c \in BagToSet(inFlight), o \in Outcomes : Complete(c, o)
    \/ CancelClick
    \/ Dismiss

Spec == Init /\ [][Next]_vars

\* the same component when submit events may also be dispatched on the form
NextForm == Next \/ FormSubmitEvent

SpecForm == Init /\ [][NextForm]_vars

\* ---- vocabulary of the properties ----
\* the step just taken was a submit attempt (handleSubmit ran)
SubmitAttempted ==
    /\ Len(out) = 1
    /\ \/ out[1].ev \in { "errors", "updateRoom", "addRoom" }
       \/ out[1] = ToastNoLocations

\* the step just taken issued a persistence call
CallIssued == Len(out) = 1 /\ out[1].ev \in { "updateRoom", "addRoom" }

\* the step just taken resumed onSubmit after its awaited call settled
Settled == Len(out) > 0 /\ out[1].ev = "settled"

FailureToasts == { ToastNoLocations, ToastUpdateFailed, ToastAddFailed, ToastUnexpected }

\* the values a transition to open must leave in the form, spelled out
ExpectedSeed ==
    [ name       |-> IF room # NoRoom THEN room.name ELSE "",
      locationId |-> IF room # NoRoom /\ room.locationId # "" THEN room.locationId
                     ELSE IF defaultLocationId # "" THEN defaultLocationId
                     ELSE IF Len(locations) > 0 THEN locations[1].id
                     ELSE "" ]

\* ---- C1 ----
\* C1: in every open session onClose is invoked exactly once: none while the
\* session is still open, and exactly one by the time it has been closed.
C1_OnCloseExactlyOncePerSession ==
    /\ isOpen => onCloseCount = 0
    /\ (~isOpen /\ session > 0) => onCloseCount = 1

\* ---- C2 ----
\* C2: onClose is never invoked while a persistence call is in flight.
C2_NoOnCloseWhileInFlight ==
    Evs(out, "onClose") # {} => inFlight = EmptyBag

\* ---- C3 ----
\* C3: at most one persistence call is in flight at any time.
C3_AtMostOneInFlight ==
    BagCardinality(inFlight) <= 1

\* ---- C4 ----
\* C4 as stated: with an empty locations list, every submit attempt emits the
\* "No locations available" toast, issues no call, calls no onClose and leaves
\* the submitting flag false.
C4_EmptyLocationsAlwaysToasts ==
    [][ (Len(locations) = 0 /\ SubmitAttempted')
          => /\ out' = << ToastNoLocations >>
             /\ inFlight' = inFlight
             /\ onCloseCount' = onCloseCount
             /\ ~isSubmitting' ]_vars

\* C4 amended: with an empty locations list, a submit attempt issues no call,
\* calls no onClose, leaves the dialog as open as it was and the submitting
\* flag false; it emits the "No locations available" toast when the form
\* values pass validation, and shows only the field errors when they do not.
C4_EmptyLocationsRejected ==
    [][ (Len(locations) = 0 /\ SubmitAttempted')
          => /\ inFlight' = inFlight
             /\ ~CallIssued'
             /\ Evs(out', "onClose") = {}
             /\ onCloseCount' = onCloseCount
             /\ isOpen' = isOpen
             /\ ~isSubmitting /\ ~isSubmitting'
             /\ (Len(form.name) >= 3 /\ form.locationId # "")
                   => out' = << ToastNoLocations >>
             /\ (Len(form.name) < 3 \/ form.locationId = "")
                   => (out'[1].ev = "errors" /\ Evs(out', "toast") = {}) ]_vars

C4_Witness ==
    /\ isOpen
    /\ Len(locations) = 0
    /\ out = << ToastNoLocations >>
    /\ ~isSubmitting
    /\ inFlight = EmptyBag

\* ---- C5 ----
\* C5: in edit mode a valid submit issues exactly updateRoom({original id,
\* submitted name, submitted locationId}); when that call settles truthy the
\* success toast is emitted and onClose(true) follows; when it settles falsy a
\* failure toast is emitted, onClose is not called and the flag is false.
C5_EditMode ==
    [][ /\ (room # NoRoom /\ Len(locations) # 0 /\ SubmitAttempted'
               /\ Len(form.name) >= 3 /\ form.locationId # "")
          => /\ out' = << [ev |-> "updateRoom",
                           room |-> [id |-> room.id, name |-> form.name,
                                     locationId |-> form.locationId]] >>
             /\ inFlight' = inFlight (+) SetToBag({out'[1]})
             /\ isSubmitting'
        /\ (room # NoRoom /\ CallIssued') => out'[1].ev = "updateRoom"
        /\ (Settled' /\ out'[1].call = "updateRoom" /\ out'[1].result = "truthy")
          => /\ out' = << out'[1], ToastRoomUpdated, onClose(TRUE) >>
             /\ onCloseCount' = onCloseCount + 1
             /\ ~isOpen'
        /\ (Settled' /\ out'[1].call = "updateRoom" /\ out'[1].result = "falsy")
          => /\ out' = << out'[1], ToastUpdateFailed >>
             /\ onCloseCount' = onCloseCount
             /\ isOpen' = isOpen
             /\ ~isSubmitting' ]_vars

C5_Witness ==
    /\ room # NoRoom
    /\ isOpen
    /\ Settled /\ out[1].call = "updateRoom" /\ out[1].result = "falsy"
    /\ ~isSubmitting
    /\ onCloseCount = 0

\* ---- C6 ----
\* C6: in create mode a valid submit issues exactly addRoom(submitted name,
\* submitted locationId); when that call settles truthy the success toast is
\* emitted and onClose(true) follows; when it settles falsy a failure toast is
\* emitted, onClose is not called and the flag is false.
C6_CreateMode ==
    [][ /\ (room = NoRoom /\ Len(locations) # 0 /\ SubmitAttempted'
               /\ Len(form.name) >= 3 /\ form.locationId # "")
          => /\ out' = << [ev |-> "addRoom", name |-> form.name,
                           locationId |-> form.locationId] >>
             /\ inFlight' = inFlight (+) SetToBag({out'[1]})
             /\ isSubmitting'
        /\ (room = NoRoom /\ CallIssued') => out'[1].ev = "addRoom"
        /\ (Settled' /\ out'[1].call = "addRoom" /\ out'[1].result = "truthy")
          => /\ out' = << out'[1], ToastRoomAdded, onClose(TRUE) >>
             /\ onCloseCount' = onCloseCount + 1
             /\ ~isOpen'
        /\ (Settled' /\ out'[1].call = "addRoom" /\ out'[1].result = "falsy")
          => /\ out' = << out'[1], ToastAddFailed >>
             /\ onCloseCount' = onCloseCount
             /\ isOpen' = isOpen
             /\ ~isSubmitting' ]_vars

C6_Witness ==
    /\ room = NoRoom
    /\ ~isOpen
    /\ out = << [ev |-> "settled", call |-> "addRoom", result |-> "truthy"],
                ToastRoomAdded, onClose(TRUE) >>
    /\ onCloseCount = 1

CallName(c) == IF c.ev = "updateRoom" THEN c.room.name ELSE c.name
CallLocationId(c) == IF c.ev = "updateRoom" THEN c.room.locationId ELSE c.locationId

C9_LocationIdInList ==
    (isOpen /\ Len(locations) # 0) => form.locationId \in LocationIds(locations)

\* ---- C10 ----
\* C10: every transition to open re-seeds the form: name = the room's name or
\* empty, locationId = the room's locationId, else defaultLocationId, else the
\* first location's id, else empty, whatever the form held before.
C10_OpenReseeds ==
    [][ (~isOpen /\ isOpen') => form' = ExpectedSeed' ]_vars

C10_Witness ==
    /\ isOpen
    /\ session = 2
    /\ onCloseCount = 0
    /\ room # NoRoom
    /\ form = [name |-> room.name, locationId |-> room.locationId]
    /\ \E c \in BagToSet(inFlight) : c.ev = "addRoom" /\ c.name = "New"

\* ---- C11 ----
\* C11: a Cancel click or a dismiss of the modal (a step that closes the open
\* dialog without a persistence call having settled) calls onClose with false
\* only, issues no persistence call and touches neither the calls in flight,
\* the flag nor the form; onClose(true) comes from no such step.
C11_CancelDismissUnchanged ==
    [][ (isOpen /\ ~isOpen' /\ ~Settled')
          => /\ Evs(out', "onClose") = 1..Len(out')
             /\ Len(out') >= 1
             /\ \A i \in 1..Len(out') : out'[i] = onClose(FALSE)
             /\ inFlight' = inFlight
             /\ isSubmitting' = isSubmitting
             /\ form' = form ]_vars

C11_Witness ==
    /\ ~isOpen
    /\ out = << onClose(FALSE) >>
    /\ inFlight # EmptyBag
    /\ isSubmitting

C13_SubmittingStateMachine ==
    [][ /\ (~isSubmitting /\ isSubmitting')
            => /\ CallIssued'
               /\ isOpen
               /\ Len(form.name) >= 3 /\ form.locationId # ""
               /\ Len(locations) # 0
               /\ BagCardinality(inFlight') = BagCardinality(inFlight) + 1
        /\ Settled' => ~isSubmitting' ]_vars

C13_Witness ==
    /\ isOpen
    /\ isSubmitting
    /\ CallIssued
    /\ out[1].ev = "addRoom"
    /\ BagCardinality(inFlight) = 1

\* ---- C14 ----
\* C14: while the dialog stays open with the flag set and the awaited call
\* still pending, no step clears the flag or changes the form values (the
\* inputs cannot be edited and a re-run of the reset effect does not reset).
C14_SubmittingHoldsUntilSettled ==
    [][ (isOpen /\ isOpen' /\ isSubmitting
            /\ inFlight # EmptyBag /\ inFlight' = inFlight)
          => (isSubmitting' /\ form' = form) ]_vars

\* ---- C15 ----
\* C15: a submit accepted by the handler (valid values, locations present)
\* issues exactly one persistence call; the calls in flight grow by at most
\* one per step and only in a step that issues that one call from the enabled
\* primary button; the step in which a call settles, failed or not, issues
\* none and takes exactly that call out of flight; no other step changes the
\* calls in flight.
C15_NoRetry ==
    [][ /\ BagCardinality(inFlight') <= BagCardinality(inFlight) + 1
        /\ (BagCardinality(inFlight') > BagCardinality(inFlight))
             => /\ CallIssued'
                /\ SubmitEnabled
                /\ inFlight' = inFlight (+) SetToBag({out'[1]})
        /\ (SubmitAttempted' /\ Len(locations) # 0
               /\ Len(form.name) >= 3 /\ form.locationId # "")
             => /\ Cardinality(Evs(out', "updateRoom") \cup Evs(out', "addRoom")) = 1
                /\ BagCardinality(inFlight') = BagCardinality(inFlight) + 1
        /\ Settled'
             => /\ Evs(out', "updateRoom") \cup Evs(out', "addRoom") = {}
                /\ BagCardinality(inFlight') = BagCardinality(inFlight) - 1
        /\ (~CallIssued' /\ ~Settled') => inFlight' = inFlight ]_vars

C15_Witness ==
    /\ isOpen
    /\ Settled /\ out[1].call = "addRoom" /\ out[1].result = "falsy"
    /\ inFlight = EmptyBag
    /\ SubmitEnabled

\* ---- C16 ----
\* C16: every onClose(true) is the last effect of a step in which a
\* persistence call settled truthy and was taken out of flight, comes once
\* for that call, and follows the success toast of that call.
C16_CloseTrueOnlyAfterSuccess ==
    [][ (\E i \in Evs(out', "onClose") : out'[i].updated)
          => /\ Len(out') = 3
             /\ out'[1].ev = "settled" /\ out'[1].result = "truthy"
             /\ out'[2] = (IF out'[1].call = "updateRoom"
                           THEN ToastRoomUpdated ELSE ToastRoomAdded)
             /\ out'[3] = onClose(TRUE)
             /\ Evs(out', "onClose") = {3}
             /\ BagCardinality(inFlight') = BagCardinality(inFlight) - 1
             /\ \E c \in BagToSet(inFlight) :
                   c.ev = out'[1].call /\ inFlight' = inFlight (-) SetToBag({c})
             /\ onCloseCount' = onCloseCount + 1 ]_vars

C16_Witness ==
    /\ ~isOpen
    /\ out = << [ev |-> "settled", call |-> "updateRoom", result |-> "truthy"],
                ToastRoomUpdated, onClose(TRUE) >>
    /\ inFlight = EmptyBag

====
